---- MODULE Spec2Model ----
(***************************************************************************)
(* A model of fibonachos.py: the rolling Fibonacci window (FibSub), the    *)
(* timer (Times), the first/last-letter function (end_letters), the        *)
(* predicate lexical and the search loop LexicalTuples.find_all.           *)
(*                                                                         *)
(* Python integers are unbounded.  A Python int is modelled by its decimal *)
(* digits, most significant first and without leading zeros (0 is <<0>>),  *)
(* so that no width is introduced that the program does not have.  A       *)
(* Python string is modelled by the sequence of its characters.  None is   *)
(* the empty sequence and a value v that may be None is <<v>>.             *)
(***************************************************************************)
EXTENDS Integers, Sequences, FiniteSets

VARIABLES
    length,     \* args.length: the n of find_all(n), FibSub.length
    max_num,    \* LexicalTuples.max_num
    timeout,    \* Times.timeout
    t0,         \* Times._t0
    now,        \* the latest value time.time() returned
    subseq,     \* the _subseq of the FibSub object find_all holds
    tuples,     \* LexicalTuples.tuples
    highest,    \* LexicalTuples.highest
    pc,         \* the statement of find_all to execute next
    exc,        \* the exception that left find_all
    stop,       \* which operand of the while condition ended the loop
    nsteps,     \* the number of completed next(subseq) calls
    arg,        \* the argument of a direct call of end_letters or lexical
    ret,        \* the value that call returned
    heap        \* the FibSub objects made by direct calls: heap[w] is the
                \* _subseq of the object with reference w

vars == <<length, max_num, timeout, t0, now, subseq, tuples, highest, pc,
          exc, stop, nsteps, arg, ret, heap>>

searchVars == <<length, max_num, timeout, t0, now, subseq, tuples, highest,
                pc, exc, stop, nsteps>>

----------------------------------------------------------------------------
(* Bounds of the model.                                                    *)

MaxLength == 4          \* lengths -1..MaxLength are requested
MaxCount == 2           \* max_num is None or 0..MaxCount
MaxTimeout == 2         \* timeout is None or 0..MaxTimeout
FirstTime == 1          \* the clock reading at construction
MaxOverrun == 2         \* the clock is read up to t0 + MaxTimeout + MaxOverrun
MaxSteps == 75          \* next(subseq) is called at most MaxSteps times
MaxDigits == 8          \* a directly called end_letters gets up to MaxDigits digits
MaxElem == 20           \* a directly called lexical gets elements 0..MaxElem
MaxSeqLen == 3          \* ... and at most MaxSeqLen of them

MaxTime == FirstTime + MaxTimeout + MaxOverrun

TailDigits == {0, 1}    \* the digits tried beyond the third digit

----------------------------------------------------------------------------
(* Python values.                                                          *)

None == <<>>

Some(v) == <<v>>

\* "x is not None" in place of bool(x): 0 counts as a bound
is_not_None(x) == x # None

\* bool(x) of an int that may be None: None and 0 are false
truthy(x) == x # None /\ x[1] # 0

Last(s) == s[Len(s)]

Front(s) == SubSeq(s, 1, Len(s) - 1)

\* the Python int with the value of the natural number v
RECURSIVE IntLiteral(_)
IntLiteral(v) == IF v < 10 THEN <<v>> ELSE Append(IntLiteral(v \div 10), v % 10)

\* int(s) of a string of decimal digits as a natural number (s is short)
RECURSIVE IntValue(_)
IntValue(s) == IF s = <<>> THEN 0 ELSE IntValue(Front(s)) * 10 + Last(s)

\* int(s) as a Python int: the leading zeros of s go
RECURSIVE IntOfStr(_)
IntOfStr(s) ==
    IF Len(s) > 1 /\ s[1] = 0 THEN IntOfStr(Tail(s)) ELSE s

\* the digits of a + b + c, where c is the carry into the last digit
RECURSIVE AddDigits(_, _, _)
AddDigits(a, b, c) ==
    IF a = <<>> /\ b = <<>>
    THEN IF c = 0 THEN <<>> ELSE <<c>>
    ELSE LET da == IF a = <<>> THEN 0 ELSE Last(a)
             db == IF b = <<>> THEN 0 ELSE Last(b)
             s == da + db + c
         IN Append(AddDigits(IF a = <<>> THEN a ELSE Front(a),
                             IF b = <<>> THEN b ELSE Front(b),
                             s \div 10),
                   s % 10)

\* a + b
IntAdd(a, b) == AddDigits(a, b, 0)

\* a < b
IntLess(a, b) ==
    \/ Len(a) < Len(b)
    \/ /\ Len(a) = Len(b)
       /\ \E i \in 1..Len(a) :
            /\ a[i] < b[i]
            /\ \A j \in 1..(i - 1) : a[j] = b[j]

\* a <= b
IntLeq(a, b) == ~IntLess(b, a)

\* max(seq) of a non-empty sequence of ints
IntMax(seq) ==
    CHOOSE x \in {seq[i] : i \in DOMAIN seq} :
        \A i \in DOMAIN seq : IntLeq(seq[i], x)

----------------------------------------------------------------------------
(* The tables of end_letters.                                              *)

digits ==
    << <<"o", "n", "e">>,
       <<"t", "w", "o">>,
       <<"t", "h", "r", "e", "e">>,
       <<"f", "o", "u", "r">>,
       <<"f", "i", "v", "e">>,
       <<"s", "i", "x">>,
       <<"s", "e", "v", "e", "n">>,
       <<"e", "i", "g", "h", "t">>,
       <<"n", "i", "n", "e">> >>

teens ==
    [n \in 11..19 |->
        << <<"e", "l", "e", "v", "e", "n">>,
           <<"t", "w", "e", "l", "v", "e">>,
           <<"t", "h", "i", "r", "t", "e", "e", "n">>,
           <<"f", "o", "u", "r", "t", "e", "e", "n">>,
           <<"f", "i", "f", "t", "e", "e", "n">>,
           <<"s", "i", "x", "t", "e", "e", "n">>,
           <<"s", "e", "v", "e", "n", "t", "e", "e", "n">>,
           <<"e", "i", "g", "h", "t", "t", "e", "e", "n">>,
           <<"n", "i", "n", "e", "t", "e", "e", "n">> >>[n - 10]]

\* {**digits, **teens}
special ==
    [n \in (DOMAIN digits) \cup (DOMAIN teens) |->
        IF n \in DOMAIN teens THEN teens[n] ELSE digits[n]]

----------------------------------------------------------------------------
(* end_letters(n): the first and final letters in the spelling of n.       *)

RECURSIVE end_letters(_)
end_letters(n) ==
    IF IntLeq(n, IntLiteral(999))
    THEN LET v == IntValue(n) IN
         IF v = 0 THEN <<"z", "o">>
         ELSE IF v \in DOMAIN special
         THEN <<special[v][1], Last(special[v])>>
         ELSE IF v = 10 THEN <<"t", "n">>
         ELSE IF 20 <= v /\ v <= 99
         THEN LET first == digits[v \div 10][1] IN
              IF v % 10 = 0 THEN <<first, "y">>
              ELSE <<first, Last(digits[v % 10])>>
         ELSE LET first == digits[v \div 100][1] IN
              IF v % 100 = 0 THEN <<first, "d">>
              ELSE <<first, end_letters(IntLiteral(v % 100))[2]>>
    ELSE LET str_n == n
             hundreds == IntOfStr(SubSeq(str_n, Len(str_n) - 2, Len(str_n)))
             m == IF 3 < Len(str_n) - 3 THEN 3 ELSE Len(str_n) - 3
             leading == IntOfStr(SubSeq(str_n, 1, m))
             first == end_letters(leading)[1]
         IN IF hundreds = IntLiteral(0)
            THEN <<first,
                   IF IntLeq(IntLiteral(1000), n) /\ IntLeq(n, IntLiteral(999999))
                   THEN "d" ELSE "n">>
            ELSE <<first, end_letters(hundreds)[2]>>

----------------------------------------------------------------------------
(* lexical(seq): the list of end letters, then all() over the adjacent     *)
(* pairs, which stops at the first pair that does not match.               *)

EndsOf(seq) == [i \in 1..Len(seq) |-> end_letters(seq[i])]

RECURSIVE AllLinked(_, _)
AllLinked(ends, i) ==
    IF i > Len(ends) - 1 THEN TRUE
    ELSE IF ends[i][2] = ends[i + 1][1] THEN AllLinked(ends, i + 1)
    ELSE FALSE

\* lexical with the pairs taken from the second element on
lexical_from_second(seq) == AllLinked(EndsOf(seq), 2)

lexical(seq) == AllLinked(EndsOf(seq), 1)

----------------------------------------------------------------------------
(* FibSub.                                                                 *)

\* the while loop of seed
RECURSIVE SeedLoop(_, _)
SeedLoop(values, n) ==
    IF Len(values) < n
    THEN SeedLoop(Append(values,
                         IntAdd(values[Len(values) - 1], values[Len(values)])),
                  n)
    ELSE values

\* FibSub(n).seed
seed(n) ==
    LET a == IntLiteral(0)
        b == IntLiteral(1)
    IN IF n = 1 THEN <<a>>
       ELSE IF n = 2 THEN <<a, b>>
       ELSE SeedLoop(<<a, b>>, n)

\* FibSub.__next__ raises IndexError at _subseq[-2] on a list of one element
NextRaises(s) == Len(s) < 2

\* NextSubseq with the new value computed from _subseq[0] instead of _subseq[-2]
NextSubseqFromFirst(s) ==
    LET value == IntAdd(s[1], s[Len(s)])
    IN Tail(s) \o <<value>>

\* the _subseq that FibSub.__next__ assigns
NextSubseq(s) ==
    LET value == IntAdd(s[Len(s) - 1], s[Len(s)])
    IN Tail(s) \o <<value>>

----------------------------------------------------------------------------
(* Times and LexicalTuples.                                                *)

\* up with >= in place of >
up_geq(t) ==
    IF ~truthy(timeout) THEN FALSE
    ELSE t - t0 >= timeout[1]

\* Times.up when time.time() returns t
up(t) ==
    IF ~truthy(timeout) THEN FALSE
    ELSE t - t0 > timeout[1]

\* satisfied with > in place of >=
satisfied_gt ==
    IF ~truthy(max_num) THEN FALSE
    ELSE Len(tuples) > max_num[1]

\* LexicalTuples.satisfied
satisfied ==
    IF ~truthy(max_num) THEN FALSE
    ELSE Len(tuples) >= max_num[1]

Lengths == (-1)..MaxLength

Counts == {None} \cup {Some(k) : k \in 0..MaxCount}

Timeouts == {None} \cup {Some(d) : d \in 0..MaxTimeout}

\* the statements of the while loop of find_all
LoopPcs == {"while", "max", "lexical", "next"}

\* LexicalTuples(max_num, timeout) has been constructed; find_all is not called yet
SearchInit ==
    /\ length \in Lengths
    /\ max_num \in Counts
    /\ timeout \in Timeouts
    /\ t0 = FirstTime
    /\ now = FirstTime
    /\ subseq = None
    /\ tuples = <<>>
    /\ highest = IntLiteral(0)
    /\ pc = "call"
    /\ exc = "None"
    /\ stop = "None"
    /\ nsteps = 0

NoCall ==
    /\ arg = <<>>
    /\ ret = None
    /\ heap = <<>>

Init == SearchInit /\ NoCall

\* find_all(n): subseq = FibSub(n)
FindAll ==
    /\ pc = "call"
    /\ subseq' = seed(length)
    /\ pc' = "while"
    /\ UNCHANGED <<length, max_num, timeout, t0, now, tuples, highest, exc,
                   stop, nsteps, arg, ret, heap>>

\* While with "or" in place of "and": the loop goes on unless both hold
WhileOr(d) ==
    /\ pc = "while"
    /\ \/ /\ ~satisfied
          /\ pc' = "max"
          /\ UNCHANGED <<stop, now>>
       \/ /\ satisfied
          /\ ~truthy(timeout)
          /\ pc' = "max"
          /\ UNCHANGED <<stop, now>>
       \/ /\ satisfied
          /\ truthy(timeout)
          /\ \E t \in (now + d)..MaxTime :
                /\ now' = t
                /\ IF up(t)
                   THEN pc' = "return" /\ stop' = "up"
                   ELSE pc' = "max" /\ stop' = stop
    /\ UNCHANGED <<length, max_num, timeout, t0, subseq, tuples, highest, exc,
                   nsteps, arg, ret, heap>>

\* while not self.satisfied and not self.times.up: the clock is read only
\* when satisfied is false and a timeout is set, and it reads at least
\* now + d
While(d) ==
    /\ pc = "while"
    /\ \/ /\ satisfied
          /\ pc' = "return"
          /\ stop' = "satisfied"
          /\ now' = now
       \/ /\ ~satisfied
          /\ ~truthy(timeout)
          /\ pc' = "max"
          /\ UNCHANGED <<stop, now>>
       \/ /\ ~satisfied
          /\ truthy(timeout)
          /\ \E t \in (now + d)..MaxTime :
                /\ now' = t
                /\ IF up(t)
                   THEN pc' = "return" /\ stop' = "up"
                   ELSE pc' = "max" /\ stop' = stop
    /\ UNCHANGED <<length, max_num, timeout, t0, subseq, tuples, highest, exc,
                   nsteps, arg, ret, heap>>

\* Highest with the first element of the window in place of its maximum
HighestFirst ==
    /\ pc = "max"
    /\ highest' = subseq[1]
    /\ pc' = "lexical"
    /\ UNCHANGED <<length, max_num, timeout, t0, now, subseq, tuples, exc,
                   stop, nsteps, arg, ret, heap>>

\* self.highest = max(subseq)
Highest ==
    /\ pc = "max"
    /\ highest' = IntMax(subseq)
    /\ pc' = "lexical"
    /\ UNCHANGED <<length, max_num, timeout, t0, now, subseq, tuples, exc,
                   stop, nsteps, arg, ret, heap>>

\* Lexical without the test: every window is appended
LexicalUntested ==
    /\ pc = "lexical"
    /\ tuples' = Append(tuples, subseq)
    /\ pc' = "next"
    /\ UNCHANGED <<length, max_num, timeout, t0, now, subseq, highest, exc,
                   stop, nsteps, arg, ret, heap>>

\* if lexical(subseq): self.tuples.append(list(subseq))
Lexical ==
    /\ pc = "lexical"
    /\ tuples' = IF lexical(subseq) THEN Append(tuples, subseq) ELSE tuples
    /\ pc' = "next"
    /\ UNCHANGED <<length, max_num, timeout, t0, now, subseq, highest, exc,
                   stop, nsteps, arg, ret, heap>>

\* Advance when the match list holds the window object itself and not a
\* copy of its values: every recorded entry follows the window
AdvanceAliased ==
    /\ pc = "next"
    /\ nsteps < MaxSteps
    /\ IF NextRaises(subseq)
       THEN /\ exc' = "IndexError"
            /\ pc' = "raised"
            /\ UNCHANGED <<subseq, nsteps, tuples>>
       ELSE /\ subseq' = NextSubseq(subseq)
            /\ tuples' = [j \in DOMAIN tuples |-> NextSubseq(subseq)]
            /\ nsteps' = nsteps + 1
            /\ pc' = "while"
            /\ exc' = exc
    /\ UNCHANGED <<length, max_num, timeout, t0, now, highest, stop, arg, ret,
                   heap>>

\* Advance with the window moved on by two terms
AdvanceTwice ==
    /\ pc = "next"
    /\ nsteps < MaxSteps
    /\ IF NextRaises(subseq)
       THEN /\ exc' = "IndexError"
            /\ pc' = "raised"
            /\ UNCHANGED <<subseq, nsteps>>
       ELSE /\ subseq' = NextSubseq(NextSubseq(subseq))
            /\ nsteps' = nsteps + 1
            /\ pc' = "while"
            /\ exc' = exc
    /\ UNCHANGED <<length, max_num, timeout, t0, now, tuples, highest, stop,
                   arg, ret, heap>>

\* subseq = next(subseq)
Advance ==
    /\ pc = "next"
    /\ nsteps < MaxSteps
    /\ IF NextRaises(subseq)
       THEN /\ exc' = "IndexError"
            /\ pc' = "raised"
            /\ UNCHANGED <<subseq, nsteps>>
       ELSE /\ subseq' = NextSubseq(subseq)
            /\ nsteps' = nsteps + 1
            /\ pc' = "while"
            /\ exc' = exc
    /\ UNCHANGED <<length, max_num, timeout, t0, now, tuples, highest, stop,
                   arg, ret, heap>>

\* a KeyboardInterrupt arrives while the loop runs and leaves find_all
Interrupt ==
    /\ pc \in LoopPcs
    /\ exc' = "KeyboardInterrupt"
    /\ pc' = "raised"
    /\ UNCHANGED <<length, max_num, timeout, t0, now, subseq, tuples, highest,
                   stop, nsteps, arg, ret, heap>>

Next ==
    \/ FindAll
    \/ While(0)
    \/ Highest
    \/ Lexical
    \/ Advance
    \/ Interrupt

Spec == Init /\ [][Next]_vars

\* the run of find_all while the wall clock keeps advancing: every reading of
\* the clock is later than the one before, and nothing interrupts the loop
LiveNext ==
    \/ FindAll
    \/ While(1)
    \/ Highest
    \/ Lexical
    \/ Advance

\* the searches that have a timeout
LiveInit == Init /\ truthy(timeout)

LiveSpec == LiveInit /\ [][LiveNext]_vars /\ WF_vars(LiveNext)

----------------------------------------------------------------------------
(* Direct calls of end_letters and lexical, as test_end_letters makes      *)
(* them: the argument is written digit by digit, or element by element.    *)

\* a search that is constructed and never started
IdleInit ==
    /\ length = 3
    /\ max_num = None
    /\ timeout = None
    /\ t0 = FirstTime
    /\ now = FirstTime
    /\ subseq = None
    /\ tuples = <<>>
    /\ highest = IntLiteral(0)
    /\ pc = "call"
    /\ exc = "None"
    /\ stop = "None"
    /\ nsteps = 0

FnInit == IdleInit /\ NoCall

\* one more digit of the number n that end_letters(n) will get
Digit ==
    /\ ret = None
    /\ Len(arg) <= 1
    /\ LET n == IF arg = <<>> THEN <<>> ELSE arg[1] IN
       /\ n # IntLiteral(0)
       /\ Len(n) < MaxDigits
       /\ \E d \in IF Len(n) < 3 THEN 0..9 ELSE TailDigits :
            arg' = <<Append(n, d)>>
    /\ UNCHANGED <<searchVars, ret, heap>>

\* one more element of the seq that lexical(seq) will get
Elem ==
    /\ ret = None
    /\ Len(arg) < MaxSeqLen
    /\ \A i \in DOMAIN arg : IntLeq(arg[i], IntLiteral(MaxElem))
    /\ \E v \in 0..MaxElem : arg' = Append(arg, IntLiteral(v))
    /\ UNCHANGED <<searchVars, ret, heap>>

CallEndLetters ==
    /\ ret = None
    /\ Len(arg) = 1
    /\ ret' = Some([fn |-> "end_letters", val |-> end_letters(arg[1])])
    /\ UNCHANGED <<searchVars, arg, heap>>

CallLexical ==
    /\ ret = None
    /\ Len(arg) >= 1
    /\ ret' = Some([fn |-> "lexical", val |-> lexical(arg)])
    /\ UNCHANGED <<searchVars, arg, heap>>

\* w = FibSub(n), called directly: a new object, whose _subseq is the seed;
\* the call returns the reference to it
NewFibSub ==
    /\ ret = None
    /\ arg = <<>>
    /\ \E n \in Lengths :
          /\ heap' = Append(heap, seed(n))
          /\ ret' = Some([fn |-> "FibSub", val |-> Some(Len(heap) + 1),
                          exc |-> "None"])
    /\ UNCHANGED <<searchVars, arg>>

\* next(w), called directly on the object w that the last call returned:
\* __next__ assigns self._subseq and returns self, or raises IndexError
CallNext ==
    /\ ret # None
    /\ ret[1].fn \in {"FibSub", "next"}
    /\ ret[1].val # None
    /\ LET w == ret[1].val[1] IN
       /\ IntLeq(Last(heap[w]), IntLiteral(MaxElem))
       /\ IF NextRaises(heap[w])
          THEN /\ heap' = heap
               /\ ret' = Some([fn |-> "next", val |-> None,
                               exc |-> "IndexError"])
          ELSE /\ heap' = [heap EXCEPT ![w] = NextSubseq(heap[w])]
               /\ ret' = Some([fn |-> "next", val |-> Some(w),
                               exc |-> "None"])
    /\ UNCHANGED <<searchVars, arg>>

FnNext ==
    \/ Digit
    \/ Elem
    \/ CallEndLetters
    \/ CallLexical
    \/ NewFibSub
    \/ CallNext

FnSpec == FnInit /\ [][FnNext]_vars

----------------------------------------------------------------------------
(* The spelling of a number, by the rules of the specification (section    *)
(* 4.1): spell is not part of fibonachos.py.                               *)

SmallNames ==
    << <<"z", "e", "r", "o">>,
       <<"o", "n", "e">>,
       <<"t", "w", "o">>,
       <<"t", "h", "r", "e", "e">>,
       <<"f", "o", "u", "r">>,
       <<"f", "i", "v", "e">>,
       <<"s", "i", "x">>,
       <<"s", "e", "v", "e", "n">>,
       <<"e", "i", "g", "h", "t">>,
       <<"n", "i", "n", "e">>,
       <<"t", "e", "n">>,
       <<"e", "l", "e", "v", "e", "n">>,
       <<"t", "w", "e", "l", "v", "e">>,
       <<"t", "h", "i", "r", "t", "e", "e", "n">>,
       <<"f", "o", "u", "r", "t", "e", "e", "n">>,
       <<"f", "i", "f", "t", "e", "e", "n">>,
       <<"s", "i", "x", "t", "e", "e", "n">>,
       <<"s", "e", "v", "e", "n", "t", "e", "e", "n">>,
       <<"e", "i", "g", "h", "t", "t", "e", "e", "n">>,
       <<"n", "i", "n", "e", "t", "e", "e", "n">>,
       <<"t", "w", "e", "n", "t", "y">> >>

TensNames ==
    << <<"t", "e", "n">>,
       <<"t", "w", "e", "n", "t", "y">>,
       <<"t", "h", "i", "r", "t", "y">>,
       <<"f", "o", "r", "t", "y">>,
       <<"f", "i", "f", "t", "y">>,
       <<"s", "i", "x", "t", "y">>,
       <<"s", "e", "v", "e", "n", "t", "y">>,
       <<"e", "i", "g", "h", "t", "y">>,
       <<"n", "i", "n", "e", "t", "y">> >>

\* the MagnitudeScale table: the orders that have a name
ScaleOrders == {2, 3, 6, 9, 12}

ScaleName(b) ==
    CASE b = 2 -> <<"h", "u", "n", "d", "r", "e", "d">>
      [] b = 3 -> <<"t", "h", "o", "u", "s", "a", "n", "d">>
      [] b = 6 -> <<"m", "i", "l", "l", "i", "o", "n">>
      [] b = 9 -> <<"b", "i", "l", "l", "i", "o", "n">>
      [] b = 12 -> <<"t", "r", "i", "l", "l", "i", "o", "n">>

\* the order of the largest scale name
LargestScaleOrder == 12

\* the order of magnitude of n: its digit count minus one
OrderOf(n) == Len(n) - 1

\* the largest order that can be spelled: the leading group in front of the
\* largest scale name has at most three digits
LargestOrder == LargestScaleOrder + 2

\* the greatest scale order that is at most ord
ScaleBelow(ord) ==
    CHOOSE b \in ScaleOrders :
        /\ b <= ord
        /\ \A c \in ScaleOrders : c <= ord => c <= b

\* spell(n): [ok |-> TRUE, text |-> the words] or, for a magnitude without a
\* scale name, [ok |-> FALSE, order |-> the order of n]
RECURSIVE spell(_)
spell(n) ==
    IF OrderOf(n) > LargestOrder
    THEN [ok |-> FALSE, order |-> OrderOf(n)]
    ELSE IF OrderOf(n) <= 1
    THEN LET v == IntValue(n) IN
         [ok |-> TRUE,
          text |-> IF v <= 20 THEN SmallNames[v + 1]
                   ELSE IF v % 10 = 0 THEN TensNames[v \div 10]
                   ELSE TensNames[v \div 10] \o <<"-">> \o SmallNames[(v % 10) + 1]]
    ELSE LET b == ScaleBelow(OrderOf(n))
             group == SubSeq(n, 1, Len(n) - b)
             rest == IntOfStr(SubSeq(n, Len(n) - b + 1, Len(n)))
             head == spell(group).text \o <<"-">> \o ScaleName(b)
         IN [ok |-> TRUE,
             text |-> IF rest = IntLiteral(0) THEN head
                      ELSE head \o <<" ">> \o spell(rest).text]

\* (spell(n)[0], spell(n)[-1])
SpelledEnds(n) == <<spell(n).text[1], Last(spell(n).text)>>

----------------------------------------------------------------------------
(* The Fibonacci sequence by its definition, to compare the windows with.  *)

\* the list F(0), ..., F(k-1), for k >= 2
RECURSIVE FibList(_, _)
FibList(acc, k) ==
    IF Len(acc) >= k THEN acc
    ELSE FibList(Append(acc, IntAdd(acc[Len(acc) - 1], acc[Len(acc)])), k)

Fibs(k) == FibList(<<IntLiteral(0), IntLiteral(1)>>, k)

\* the n consecutive terms F(i), ..., F(i+n-1)
FibRun(i, n) == SubSeq(Fibs(i + n), i + 1, i + n)

----------------------------------------------------------------------------
(* C1: for every n whose magnitude has a scale name, end_letters(n) is    *)
(* the pair (first letter, last letter) of the spelling of n.             *)
C1_EndLettersAgreeWithSpelling ==
    (ret # None /\ ret[1].fn = "end_letters" /\ spell(arg[1]).ok)
        => ret[1].val = SpelledEnds(arg[1])

----------------------------------------------------------------------------
\* the first k lexical windows among the windows of n terms that start at
\* F(i), F(i+1), ..., F(limit)
RECURSIVE ScanFrom(_, _, _, _, _)
ScanFrom(fibs, n, i, limit, k) ==
    IF k = 0 \/ i > limit THEN <<>>
    ELSE LET w == SubSeq(fibs, i + 1, i + n) IN
         IF lexical(w)
         THEN <<w>> \o ScanFrom(fibs, n, i + 1, limit, k - 1)
         ELSE ScanFrom(fibs, n, i + 1, limit, k)

(* C2: when find_all stops because the count bound k is satisfied, with   *)
(* L >= 1 and no timeout, the match list holds exactly k entries, and      *)
(* they are the first k lexical windows of an exhaustive forward scan of   *)
(* the Fibonacci sequence from the seed window, one window per step.       *)
C2_FirstMatches ==
    (pc = "return" /\ stop = "satisfied" /\ length >= 1 /\ ~truthy(timeout))
        => /\ Len(tuples) = max_num[1]
           /\ tuples = ScanFrom(Fibs(nsteps + length), length, 0, nsteps,
                                max_num[1])

C2_Witness ==
    /\ pc = "return"
    /\ stop = "satisfied"
    /\ length = 3
    /\ max_num = Some(1)
    /\ timeout = None
    /\ tuples = << <<IntLiteral(5), IntLiteral(8), IntLiteral(13)>> >>

----------------------------------------------------------------------------
(* C3: the window seed(L) makes is the first L Fibonacci numbers, and      *)
(* after seed and any number of advances every element of the window at    *)
(* index >= 2 is the sum of the two elements before it.                    *)
C3_FibonacciWindow ==
    subseq # None =>
        /\ (nsteps = 0 /\ length >= 1) => subseq = FibRun(0, length)
        /\ \A i \in 3..Len(subseq) :
              subseq[i] = IntAdd(subseq[i - 2], subseq[i - 1])

C3_Witness ==
    /\ length = 4
    /\ nsteps = 5
    /\ subseq = <<IntLiteral(5), IntLiteral(8), IntLiteral(13), IntLiteral(21)>>

----------------------------------------------------------------------------
(* C4: lexical(window) is true exactly if, for every i in 0..L-2, the last *)
(* letter of element i is the first letter of element i+1, the letters     *)
(* being those of end_letters; so it is true of every window of length 1   *)
(* and of the window [5, 8, 13].                                           *)
C4_LexicalIffLinked ==
    (ret # None /\ ret[1].fn = "lexical") =>
        /\ ret[1].val <=>
              \A i \in 1..(Len(arg) - 1) :
                  end_letters(arg[i])[2] = end_letters(arg[i + 1])[1]
        /\ Len(arg) = 1 => ret[1].val
        /\ arg = <<IntLiteral(5), IntLiteral(8), IntLiteral(13)>> => ret[1].val

C4_Witness ==
    /\ ret # None
    /\ ret[1].fn = "lexical"
    /\ arg = <<IntLiteral(5), IntLiteral(8), IntLiteral(13)>>
    /\ ret[1].val

----------------------------------------------------------------------------
\* ts[j], ts[j+1], ... are windows of n terms of fibs that start at
\* strictly increasing indices, the first of them at from or later
RECURSIVE Ascending(_, _, _, _, _)
Ascending(fibs, ts, j, from, n) ==
    IF j > Len(ts) THEN TRUE
    ELSE \E i \in from..(Len(fibs) - n) :
            /\ ts[j] = SubSeq(fibs, i + 1, i + n)
            /\ Ascending(fibs, ts, j + 1, i + 1, n)

(* C5: in every reachable state of a search of length L >= 1, every entry  *)
(* of the match list is a run of exactly L consecutive Fibonacci terms     *)
(* that satisfies the lexical predicate, the entries are in strictly       *)
(* increasing Fibonacci index, and no window is recorded twice.            *)
C5_MatchesAreOrderedLexicalRuns ==
    length >= 1 =>
        /\ \A j \in DOMAIN tuples :
              /\ Len(tuples[j]) = length
              /\ lexical(tuples[j])
        /\ Ascending(Fibs(nsteps + length), tuples, 1, 0, length)
        /\ \A j, k \in DOMAIN tuples : j # k => tuples[j] # tuples[k]

C5_Witness ==
    /\ length = 2
    /\ Len(tuples) = 3
    /\ tuples[3] = <<IntLiteral(8), IntLiteral(13)>>

----------------------------------------------------------------------------
----------------------------------------------------------------------------
\* a count bound is set and the number of matches has reached it
CountReached ==
    /\ max_num # None
    /\ max_num[1] >= 1
    /\ Len(tuples) >= max_num[1]

\* a timeout is set and the time elapsed at clock reading t exceeds it
TimedOutAt(t) ==
    /\ timeout # None
    /\ timeout[1] >= 1
    /\ t - t0 > timeout[1]

(* C7: the loop performs another step exactly if neither stop condition    *)
(* holds at the loop check (the count bound is set and reached; the        *)
(* timeout is set and exceeded), so with both set the search stops at the  *)
(* first loop check at which either holds; and the number of matches is    *)
(* never above the count bound.                                            *)
C7_LoopContinuesIffNeither ==
    /\ [][(pc = "while" /\ pc' \in {"max", "return"})
            => (pc' = "max" <=> (~CountReached /\ ~TimedOutAt(now')))]_vars
    /\ [](truthy(max_num) => Len(tuples) <= max_num[1])

C7_Witness ==
    /\ truthy(max_num)
    /\ truthy(timeout)
    /\ pc = "return"
    /\ stop = "up"
    /\ Len(tuples) = 1

----------------------------------------------------------------------------
(* C8: with neither a count bound nor a timeout, the search is accepted    *)
(* and the controller never stops on its own: satisfied and timed-out are  *)
(* false in every reachable state and only an external interruption ends   *)
(* the loop.                                                               *)
C8_UnboundedNeverStops ==
    (max_num = None /\ timeout = None) =>
        /\ ~CountReached
        /\ ~TimedOutAt(now)
        /\ pc # "return"
        /\ pc = "raised" => exc = "KeyboardInterrupt"

----------------------------------------------------------------------------
(* C9: when the search comes to a window with a value whose order of       *)
(* magnitude is beyond the largest scale name, the letter computation      *)
(* fails and the error leaves find_all: the lexical test never completes   *)
(* on such a window with a letter pair computed all the same.              *)
C9_MagnitudeErrorRaised ==
    pc = "next" => \A i \in DOMAIN subseq : spell(subseq[i]).ok

----------------------------------------------------------------------------
(* C10: a request for a window of length L <= 0 fails at construction: no  *)
(* window is created and no step of the search runs.                       *)
C10_InvalidLengthFails ==
    length <= 0 =>
        /\ subseq = None
        /\ pc \in {"call", "raised"}
        /\ nsteps = 0

----------------------------------------------------------------------------
(* C11: for every length L >= 1, L = 1 included, seed(L) succeeds and      *)
(* every advance of the window succeeds: it raises nothing and yields a    *)
(* window of exactly L elements, the old window without its oldest element *)
(* followed by the next Fibonacci value.                                   *)
C11_EveryAdvanceSucceeds ==
    [][/\ (pc = "call" /\ length >= 1) => subseq' = FibRun(0, length)
       /\ (pc = "next" /\ length >= 1 /\ exc' # "KeyboardInterrupt")
             => /\ exc' = "None"
                /\ Len(subseq') = length
                /\ subseq' = Tail(subseq)
                                \o <<Last(FibRun(nsteps + 1, length))>>]_vars

----------------------------------------------------------------------------
(* C12: advance does not mutate its input: after w2 = next(w) the object w *)
(* still holds the same L integers as before the call, and w2 is another   *)
(* object than w.                                                          *)
C12_AdvanceDoesNotMutate ==
    [][(/\ ret # None
        /\ ret[1].fn \in {"FibSub", "next"}
        /\ ret'[1].fn = "next"
        /\ ret'[1].val # None)
          => LET w == ret[1].val[1]
                 w2 == ret'[1].val[1]
             IN /\ heap'[w] = heap[w]
                /\ w2 # w]_vars

----------------------------------------------------------------------------
(* C13: across every step of a search the match list is append-only (a     *)
(* step leaves the matches recorded before it unchanged in content and     *)
(* order and adds at most one entry, so a later advance of the window      *)
(* never alters a recorded match), and highest never decreases.            *)
C13_AppendOnlyAndMonotone ==
    [][/\ \/ tuples' = tuples
          \/ /\ Len(tuples') = Len(tuples) + 1
             /\ SubSeq(tuples', 1, Len(tuples)) = tuples
       /\ IntLeq(highest, highest')]_vars

C13_Witness ==
    /\ length = 2
    /\ pc = "while"
    /\ nsteps = 6
    /\ subseq = <<IntLiteral(8), IntLiteral(13)>>
    /\ tuples = << <<IntLiteral(0), IntLiteral(1)>>,
                   <<IntLiteral(5), IntLiteral(8)>> >>
    /\ highest = IntLiteral(8)

----------------------------------------------------------------------------
----------------------------------------------------------------------------
\* the scale boundary of n >= 1000: the greatest scale order that is at most
\* the order of magnitude of n
Boundary(n) == ScaleBelow(OrderOf(n))

\* the leading group of n: the digits above the scale boundary
LeadingGroup(n) == SubSeq(n, 1, Len(n) - Boundary(n))

\* the remainder of n: n mod 10^b for the scale boundary b
Remainder(n) == IntOfStr(SubSeq(n, Len(n) - Boundary(n) + 1, Len(n)))

(* C15: for every n >= 1000 the first letter end_letters(n) returns is the *)
(* first letter of the spelling of the leading group of n, spelled as its  *)
(* own number (so a leading group of 10..19 gives the letter of ten,       *)
(* eleven, ..., nineteen).                                                 *)
C15_FirstLetterOfLeadingGroup ==
    (/\ ret # None
     /\ ret[1].fn = "end_letters"
     /\ Len(arg[1]) >= 4
     /\ spell(arg[1]).ok)
        => ret[1].val[1] = spell(LeadingGroup(arg[1])).text[1]

----------------------------------------------------------------------------
(* C16: for every n >= 1000 with scale boundary b and remainder r = n mod  *)
(* 10^b, the last letter end_letters(n) returns is the last letter of the  *)
(* spelling of r if r is not zero, and else the terminal letter of the     *)
(* scale name: d for hundred and thousand, n for million and larger.       *)
C16_LastLetterOfRemainder ==
    (/\ ret # None
     /\ ret[1].fn = "end_letters"
     /\ Len(arg[1]) >= 4
     /\ spell(arg[1]).ok)
        => LET r == Remainder(arg[1]) IN
           ret[1].val[2] = IF r # IntLiteral(0) THEN Last(spell(r).text)
                           ELSE IF Boundary(arg[1]) <= 3 THEN "d"
                           ELSE "n"

----------------------------------------------------------------------------
(* C17: after the controller is started and before any step has completed, *)
(* highest is 0 if the last value of the seed is 0 and else is the last    *)
(* (the maximum) value of the seed window; so if a stop condition fires    *)
(* before the first step, highest is the maximum of the seed.              *)
C17_HighestStartsAtSeedMaximum ==
    (pc # "call" /\ nsteps = 0 /\ length >= 1) =>
        highest = IF Last(subseq) = IntLiteral(0) THEN IntLiteral(0)
                  ELSE Last(subseq)

----------------------------------------------------------------------------
(* C18: whenever find_all stops because the count bound is satisfied, with *)
(* L >= 2, highest is the maximum element of the last recorded match and   *)
(* the window is exactly one advance past that match.                      *)
C18_StopByCount ==
    (pc = "return" /\ stop = "satisfied" /\ length >= 2) =>
        /\ max_num # None
        /\ max_num[1] >= 1
        /\ highest = IntMax(Last(tuples))
        /\ subseq = NextSubseq(Last(tuples))

C18_Witness ==
    /\ pc = "return"
    /\ stop = "satisfied"
    /\ length = 2
    /\ max_num = Some(2)
    /\ timeout = Some(1)
    /\ Last(tuples) = <<IntLiteral(5), IntLiteral(8)>>
    /\ subseq = <<IntLiteral(8), IntLiteral(13)>>
    /\ highest = IntLiteral(8)

----------------------------------------------------------------------------
====
